---- MODULE Spec2Model ----
(***************************************************************************)
(* Model of the worker-pool web crawler (crawl / crawlWorker /             *)
(* processResults).  URLs are already-standardized strings; a page is the  *)
(* duplicate-free sequence of links parseURLs extracts from it.            *)
(*                                                                         *)
(* Spec / FairSpec : the worker-pool crawl                                 *)
(* PureSpec        : standardizeURL, parseURLs, recommendedWorkers applied *)
(*                   to inputs drawn from bounded sets                     *)
(* GorSpec         : the goroutine-per-URL variant (aggregateURLs / crawl) *)
(***************************************************************************)
EXTENDS Integers, Sequences, FiniteSets, TLC

\* ------------------------------------------------------------------ bounds
NumWorkers == 2        \* largest pool size tried (maxWorkers)
MaxCap == 2            \* largest frontier capacity tried (cap(urlsToCrawl))
MaxDepthBound == 2     \* largest maxDepth tried (0 = unlimited is always tried)

Workers == 1..NumWorkers

\* make(chan urlInfo, 1000*maxWorkers)
BufferPerWorker == 1000

\* -------------------------------------------------------------- link graphs
Seed == "foo"
URLs == {"foo", "a", "b", "c"}

\* what parseURLs returns for each page: ordered, no duplicates
GraphFan == [u \in URLs |->
    CASE u = "foo" -> <<"a", "b">>
      [] u = "a"   -> <<"c", "b", "a", "foo">>
      [] u = "b"   -> <<"a", "c">>
      [] OTHER     -> << >>]
GraphChain == [u \in URLs |->
    CASE u = "foo" -> <<"a">>
      [] u = "a"   -> <<"b">>
      [] u = "b"   -> <<"c", "foo">>
      [] OTHER     -> <<"a">>]
GraphSelf == [u \in URLs |->
    CASE u = "foo" -> <<"foo", "a", "b", "c">>
      [] u = "a"   -> << >>
      [] u = "b"   -> <<"a", "b">>
      [] OTHER     -> << >>]
Graphs == {GraphFan, GraphChain, GraphSelf}

VARIABLES
    links,          \* the web: page -> extracted child URLs
    maxDepth,       \* crawl's maxDepth argument
    capacity,       \* cap(urlsToCrawl)
    maxWorkers,     \* number of crawlWorker goroutines spawned
    urlsToCrawl,    \* buffered channel contents: Seq of urlInfo
    toCrawlClosed,  \* close(urlsToCrawl) has run
    resultsClosed,  \* close(results) has run
    wg,             \* sync.WaitGroup counter
    crawled,        \* processResults' crawled map (set of keys mapped to true)
    mainpc,         \* crawl/main: "wait", "close", "returned", "exited"
    seedpc,         \* the seeding goroutine: "send", "done"
    aggpc,          \* processResults: "recv", "loop", "add", "exit"
    info,           \* processResults' current urlResults
    idx,            \* index of the child the second loop is at
    wpc,            \* crawlWorker: "recv", "fetch", "send", "returned", "exit"
                    \* ("unused": beyond maxWorkers, never spawned)
    wurl,           \* the urlInfo a worker holds
    \* ---- history (observation only, never read by the program) ----
    processed,      \* baseURLs of the results processResults has received
    enqCount,       \* URL -> number of times sent into urlsToCrawl
    enqLog,         \* every urlInfo sent into urlsToCrawl, in the order sent
    sentThis,       \* children of the current result sent into urlsToCrawl
    droppedThis,    \* children of the current result discarded (buffer full)
    droppedEver,    \* children discarded at any time
    free0,          \* free slots of urlsToCrawl when the current result arrived
    deqDuring,      \* a worker received from urlsToCrawl during this result
    \* ---- a call of a pure function (PureSpec) ----
    pcall,          \* the function called ("none" outside PureSpec)
    parg,           \* its argument
    pres,           \* the values returned so far
    \* ---- the goroutine-per-URL variant (GorSpec) ----
    gors,           \* the crawl goroutines started, in the order started
    gcrawled,       \* aggregateURLs' crawled map
    gwg,            \* its sync.WaitGroup counter
    gclosed,        \* close(urlAggregation) has run
    agpc,           \* aggregateURLs' loop: "recv", "check", "start", "returned"
    acur,           \* the urlInfo the loop received
    waitpc,         \* the goroutine around wg.Wait: "wait", "close", "done"
    gskip           \* history: the urlInfo values the loop did not start

vars == <<links, maxDepth, capacity, maxWorkers, urlsToCrawl, toCrawlClosed, resultsClosed,
          wg, crawled, mainpc, seedpc, aggpc, info, idx, wpc, wurl,
          processed, enqCount, enqLog, sentThis, droppedThis, droppedEver, free0, deqDuring,
          pcall, parg, pres,
          gors, gcrawled, gwg, gclosed, agpc, acur, waitpc, gskip>>

config == <<links, maxDepth, capacity, maxWorkers>>
pure == <<pcall, parg, pres>>
gvars == <<gors, gcrawled, gwg, gclosed, agpc, acur, waitpc, gskip>>
hist == <<processed, enqCount, enqLog, sentThis, droppedThis, droppedEver, free0, deqDuring>>

urlInfo(v, d) == [val |-> v, depth |-> d]
urlResults(b, c, d) == [baseURL |-> b, childURLs |-> c, depth |-> d]
NoInfo == urlResults(Seed, << >>, 0)
NoURL == urlInfo(Seed, 0)

Running == mainpc # "exited"

\* no pure-function call is being observed
PureIdle ==
    /\ pcall = "none"
    /\ parg = << >>
    /\ pres = << >>

\* the goroutine-per-URL variant is not running
GorIdle ==
    /\ gors = << >>
    /\ gcrawled = {}
    /\ gwg = 0
    /\ gclosed = FALSE
    /\ agpc = "none"
    /\ acur = NoURL
    /\ waitpc = "none"
    /\ gskip = {}

Init ==
    /\ PureIdle
    /\ GorIdle
    /\ links \in Graphs
    /\ maxDepth \in 0..MaxDepthBound
    /\ maxWorkers \in 1..NumWorkers
    /\ capacity \in (1..MaxCap) \cup {BufferPerWorker * maxWorkers}
    /\ urlsToCrawl = << >>
    /\ toCrawlClosed = FALSE
    /\ resultsClosed = FALSE
    /\ wg = 1
    /\ crawled = {}
    /\ mainpc = "wait"
    /\ seedpc = "send"
    /\ aggpc = "recv"
    /\ info = NoInfo
    /\ idx = 1
    /\ wpc = [w \in Workers |-> IF w <= maxWorkers THEN "recv" ELSE "unused"]
    /\ wurl = [w \in Workers |-> NoURL]
    /\ processed = {}
    /\ enqCount = [u \in URLs |-> 0]
    /\ enqLog = << >>
    /\ sentThis = << >>
    /\ droppedThis = {}
    /\ droppedEver = {}
    /\ free0 = 0
    /\ deqDuring = FALSE

\* ------------------------------------------------------------ seed goroutine
SeedSend ==
    /\ Running
    /\ seedpc = "send"
    /\ Len(urlsToCrawl) < capacity
    /\ urlsToCrawl' = Append(urlsToCrawl, urlInfo(Seed, 1))
    /\ seedpc' = "done"
    /\ enqCount' = [enqCount EXCEPT ![Seed] = @ + 1]
    /\ enqLog' = Append(enqLog, urlInfo(Seed, 1))
    /\ UNCHANGED <<config, pure, gvars, toCrawlClosed, resultsClosed, wg, crawled, mainpc,
                   aggpc, info, idx, wpc, wurl, processed,
                   sentThis, droppedThis, droppedEver, free0, deqDuring>>


\* --------------------------------------------------------------- crawlWorker
\* mutant: the worker is handed the newest work item, not the oldest
WorkerRecvNewest(w) ==
    /\ Running
    /\ wpc[w] = "recv"
    /\ urlsToCrawl # << >>
    /\ wurl' = [wurl EXCEPT ![w] = urlsToCrawl[Len(urlsToCrawl)]]
    /\ urlsToCrawl' = SubSeq(urlsToCrawl, 1, Len(urlsToCrawl) - 1)
    /\ wpc' = [wpc EXCEPT ![w] = "fetch"]
    /\ deqDuring' = (deqDuring \/ aggpc \in {"loop", "add"})
    /\ UNCHANGED <<config, pure, gvars, toCrawlClosed, resultsClosed, wg, crawled, mainpc,
                   seedpc, aggpc, info, idx, processed,
                   enqCount, enqLog, sentThis, droppedThis, droppedEver, free0>>

\* for url := range urlsToCrawl: a value is received while the buffer holds one
WorkerRecv(w) ==
    /\ Running
    /\ wpc[w] = "recv"
    /\ urlsToCrawl # << >>
    /\ wurl' = [wurl EXCEPT ![w] = Head(urlsToCrawl)]
    /\ urlsToCrawl' = Tail(urlsToCrawl)
    /\ wpc' = [wpc EXCEPT ![w] = "fetch"]
    /\ deqDuring' = (deqDuring \/ aggpc \in {"loop", "add"})
    /\ UNCHANGED <<config, pure, gvars, toCrawlClosed, resultsClosed, wg, crawled, mainpc,
                   seedpc, aggpc, info, idx, processed,
                   enqCount, enqLog, sentThis, droppedThis, droppedEver, free0>>

\* the range loop ends once the channel is closed and drained
WorkerExit(w) ==
    /\ Running
    /\ wpc[w] = "recv"
    /\ urlsToCrawl = << >>
    /\ toCrawlClosed
    /\ wpc' = [wpc EXCEPT ![w] = "exit"]
    /\ UNCHANGED <<config, pure, gvars, urlsToCrawl, toCrawlClosed, resultsClosed, wg, crawled,
                   mainpc, seedpc, aggpc, info, idx, wurl, hist>>

\* client.Get returns an error: log and return
WorkerFetchError(w) ==
    /\ Running
    /\ wpc[w] = "fetch"
    /\ wpc' = [wpc EXCEPT ![w] = "returned"]
    /\ UNCHANGED <<config, pure, gvars, urlsToCrawl, toCrawlClosed, resultsClosed, wg, crawled,
                   mainpc, seedpc, aggpc, info, idx, wurl, hist>>

\* html.Parse returns an error: log and return
WorkerParseError(w) ==
    /\ Running
    /\ wpc[w] = "fetch"
    /\ wpc' = [wpc EXCEPT ![w] = "returned"]
    /\ UNCHANGED <<config, pure, gvars, urlsToCrawl, toCrawlClosed, resultsClosed, wg, crawled,
                   mainpc, seedpc, aggpc, info, idx, wurl, hist>>

\* fetch and parse succeed; the worker now blocks on results <- urlResults{...}
WorkerFetchOK(w) ==
    /\ Running
    /\ wpc[w] = "fetch"
    /\ wpc' = [wpc EXCEPT ![w] = "send"]
    /\ UNCHANGED <<config, pure, gvars, urlsToCrawl, toCrawlClosed, resultsClosed, wg, crawled,
                   mainpc, seedpc, aggpc, info, idx, wurl, hist>>

\* ------------------------------------------------------------ processResults
\* crawled[info.baseURL] = true
MarkCrawled(c, u) == c \cup {u}

\* mutants of the condition below: the crawled test left out; the depth test
\* off by one
EligibleDepthOnly(c, child, depth, md) == depth < md \/ md = 0
EligibleDepthInclusive(c, child, depth, md) ==
    child \notin c /\ (depth <= md \/ md = 0)

\* !crawled[childURL] && (info.depth < maxDepth || maxDepth == 0)
Eligible(c, child, depth, md) == child \notin c /\ (depth < md \/ md = 0)

\* mutant: the send goes through although the buffer is full
CanSendAlways(q, cp) == TRUE

\* mutant: one slot of the buffer is never used
CanSendOffByOne(q, cp) == Len(q) + 1 < cp

\* the select's send case is ready iff the buffer has room
CanSend(q, cp) == Len(q) < cp

\* mutant: the dropped child is tried again
AfterDropRetry(i) == i

\* the loop goes on to the next child after the default branch
AfterDrop(i) == i + 1

\* mutant: the result is counted off twice
WgDoneTwice(n) == n - 2

\* mutant: the send is counted twice
WgAddTwice(n) == n + 2

\* mutant: the send is not counted
WgAddSkip(n) == n

\* wg.Add(1)
WgAdd(n) == n + 1

\* mutant: the processed result is not counted off
WgDoneSkip(n) == n

\* wg.Done()
WgDone(n) == n - 1

\* the unbuffered hand-off results <- r / info := range results, then line 107
Handoff(w) ==
    /\ Running
    /\ wpc[w] = "send"
    /\ aggpc = "recv"
    /\ ~resultsClosed
    /\ info' = urlResults(wurl[w].val, links[wurl[w].val], wurl[w].depth)
    /\ crawled' = MarkCrawled(crawled, wurl[w].val)
    /\ idx' = 1
    /\ aggpc' = "loop"
    /\ wpc' = [wpc EXCEPT ![w] = "recv"]
    /\ wurl' = [wurl EXCEPT ![w] = NoURL]
    /\ processed' = processed \cup {wurl[w].val}
    /\ sentThis' = << >>
    /\ droppedThis' = {}
    /\ free0' = capacity - Len(urlsToCrawl)
    /\ deqDuring' = FALSE
    /\ UNCHANGED <<config, pure, gvars, urlsToCrawl, toCrawlClosed, resultsClosed, wg, mainpc,
                   seedpc, enqCount, enqLog, droppedEver>>

\* mutant: a plain send instead of the select: the aggregator waits for room
AggChildBlocking ==
    /\ Running
    /\ aggpc = "loop"
    /\ idx <= Len(info.childURLs)
    /\ LET childURL == info.childURLs[idx] IN
       IF Eligible(crawled, childURL, info.depth, maxDepth)
       THEN /\ CanSend(urlsToCrawl, capacity)
            /\ urlsToCrawl' = Append(urlsToCrawl, urlInfo(childURL, info.depth + 1))
            /\ aggpc' = "add"
            /\ enqCount' = [enqCount EXCEPT ![childURL] = @ + 1]
            /\ enqLog' = Append(enqLog, urlInfo(childURL, info.depth + 1))
            /\ sentThis' = Append(sentThis, childURL)
            /\ UNCHANGED <<idx, droppedThis, droppedEver>>
       ELSE /\ idx' = idx + 1
            /\ UNCHANGED <<urlsToCrawl, aggpc, enqCount, enqLog, sentThis,
                           droppedThis, droppedEver>>
    /\ UNCHANGED <<config, pure, gvars, toCrawlClosed, resultsClosed, wg, crawled, mainpc,
                   seedpc, info, wpc, wurl, processed, free0, deqDuring>>

\* one iteration of the second loop over info.childURLs, up to the select
AggChild ==
    /\ Running
    /\ aggpc = "loop"
    /\ idx <= Len(info.childURLs)
    /\ LET childURL == info.childURLs[idx] IN
       IF Eligible(crawled, childURL, info.depth, maxDepth)
       THEN IF CanSend(urlsToCrawl, capacity)
            THEN /\ urlsToCrawl' = Append(urlsToCrawl, urlInfo(childURL, info.depth + 1))
                 /\ aggpc' = "add"
                 /\ enqCount' = [enqCount EXCEPT ![childURL] = @ + 1]
                 /\ enqLog' = Append(enqLog, urlInfo(childURL, info.depth + 1))
                 /\ sentThis' = Append(sentThis, childURL)
                 /\ UNCHANGED <<idx, droppedThis, droppedEver>>
            ELSE /\ idx' = AfterDrop(idx)
                 /\ droppedThis' = droppedThis \cup {childURL}
                 /\ droppedEver' = droppedEver \cup {childURL}
                 /\ UNCHANGED <<urlsToCrawl, aggpc, enqCount, enqLog, sentThis>>
       ELSE /\ idx' = idx + 1
            /\ UNCHANGED <<urlsToCrawl, aggpc, enqCount, enqLog, sentThis, droppedThis,
                           droppedEver>>
    /\ UNCHANGED <<config, pure, gvars, toCrawlClosed, resultsClosed, wg, crawled, mainpc,
                   seedpc, info, wpc, wurl, processed, free0, deqDuring>>

\* wg.Add(1) after the send went through
AggAdd ==
    /\ Running
    /\ aggpc = "add"
    /\ wg' = WgAdd(wg)
    /\ idx' = idx + 1
    /\ aggpc' = "loop"
    /\ UNCHANGED <<config, pure, gvars, urlsToCrawl, toCrawlClosed, resultsClosed, crawled,
                   mainpc, seedpc, info, wpc, wurl, hist>>

\* wg.Done() once every child was looked at
AggDone ==
    /\ Running
    /\ aggpc = "loop"
    /\ idx > Len(info.childURLs)
    /\ wg' = WgDone(wg)
    /\ aggpc' = "recv"
    /\ info' = NoInfo
    /\ idx' = 1
    /\ sentThis' = << >>
    /\ droppedThis' = {}
    /\ free0' = 0
    /\ deqDuring' = FALSE
    /\ UNCHANGED <<config, pure, gvars, urlsToCrawl, toCrawlClosed, resultsClosed, crawled,
                   mainpc, seedpc, wpc, wurl, processed, enqCount, enqLog,
                   droppedEver>>

\* results is closed: the range loop ends and close(urlsToCrawl) runs
AggClose ==
    /\ Running
    /\ aggpc = "recv"
    /\ resultsClosed
    /\ toCrawlClosed' = TRUE
    /\ aggpc' = "exit"
    /\ UNCHANGED <<config, pure, gvars, urlsToCrawl, resultsClosed, wg, crawled, mainpc,
                   seedpc, info, idx, wpc, wurl, hist>>

\* --------------------------------------------------------------- crawl, main
\* wg.Wait() returns when the counter is zero
MainWait ==
    /\ mainpc = "wait"
    /\ wg = 0
    /\ mainpc' = "close"
    /\ UNCHANGED <<config, pure, gvars, urlsToCrawl, toCrawlClosed, resultsClosed, wg, crawled,
                   seedpc, aggpc, info, idx, wpc, wurl, hist>>

\* close(results)
MainClose ==
    /\ mainpc = "close"
    /\ resultsClosed' = TRUE
    /\ mainpc' = "returned"
    /\ UNCHANGED <<config, pure, gvars, urlsToCrawl, toCrawlClosed, wg, crawled,
                   seedpc, aggpc, info, idx, wpc, wurl, hist>>

\* crawl returns to main, main returns: the process ends with its goroutines
MainReturn ==
    /\ mainpc = "returned"
    /\ mainpc' = "exited"
    /\ UNCHANGED <<config, pure, gvars, urlsToCrawl, toCrawlClosed, resultsClosed, wg, crawled,
                   seedpc, aggpc, info, idx, wpc, wurl, hist>>

Worker(w) ==
    \/ WorkerRecv(w)
    \/ WorkerExit(w)
    \/ WorkerFetchError(w)
    \/ WorkerParseError(w)
    \/ WorkerFetchOK(w)
    \/ Handoff(w)

Aggregator == AggChild \/ AggAdd \/ AggDone \/ AggClose

Main == MainWait \/ MainClose \/ MainReturn

Next ==
    \/ SeedSend
    \/ \E w \in Workers : Worker(w)
    \/ Aggregator
    \/ Main

Spec == Init /\ [][Next]_vars

\* The Go scheduler runs every runnable goroutine eventually.
FairSpec ==
    /\ Spec
    /\ WF_vars(SeedSend)
    /\ \A w \in Workers : WF_vars(Worker(w))
    /\ WF_vars(Aggregator)
    /\ WF_vars(Main)

\* ======================================================= pure functions
Min(a, b) == IF a < b THEN a ELSE b

MaxPathLen == 3        \* longest raw path tried, in tokens
MaxRecDepth == 6       \* largest maxDepth given to recommendedWorkers

\* the worker-pool crawl is not running
PoolIdle ==
    /\ capacity = 1
    /\ maxWorkers = 1
    /\ urlsToCrawl = << >>
    /\ toCrawlClosed = FALSE
    /\ resultsClosed = FALSE
    /\ wg = 0
    /\ crawled = {}
    /\ mainpc = "none"
    /\ seedpc = "none"
    /\ aggpc = "none"
    /\ info = NoInfo
    /\ idx = 1
    /\ wpc = [w \in Workers |-> "unused"]
    /\ wurl = [w \in Workers |-> NoURL]
    /\ processed = {}
    /\ enqCount = [u \in URLs |-> 0]
    /\ enqLog = << >>
    /\ sentThis = << >>
    /\ droppedThis = {}
    /\ droppedEver = {}
    /\ free0 = 0
    /\ deqDuring = FALSE

pool == <<urlsToCrawl, toCrawlClosed, resultsClosed, wg, crawled, mainpc, seedpc,
          aggpc, info, idx, wpc, wurl, hist>>

\* ---------------------------------------------------------------- strings
\* A string is a sequence of tokens: "https:", "http:", "mailto:" (a scheme
\* with its colon), "/", "?", "#", " ", "a" (a letter), "%3F" and "%23" (the
\* escapes of "?" and "#"), "%zz" (an invalid escape).

\* strings.Index: the first place of token t in s, 0 when absent
IndexOf(s, t) ==
    IF \E i \in 1..Len(s) : s[i] = t
    THEN CHOOSE i \in 1..Len(s) : s[i] = t /\ \A j \in 1..(i - 1) : s[j] # t
    ELSE 0

\* strings.Cut(s, t)
CutBefore(s, t) == IF IndexOf(s, t) = 0 THEN s ELSE SubSeq(s, 1, IndexOf(s, t) - 1)
CutAfter(s, t) == IF IndexOf(s, t) = 0 THEN << >> ELSE SubSeq(s, IndexOf(s, t) + 1, Len(s))

HasPrefix(s, pre) == Len(s) >= Len(pre) /\ SubSeq(s, 1, Len(pre)) = pre

RECURSIVE TrimRight(_, _)
\* strings.TrimRight(s, t)
TrimRight(s, t) ==
    IF s # << >> /\ s[Len(s)] = t
    THEN TrimRight(SubSeq(s, 1, Len(s) - 1), t)
    ELSE s

RECURSIVE TrimLeft(_, _)
TrimLeft(s, t) ==
    IF s # << >> /\ s[1] = t THEN TrimLeft(Tail(s), t) ELSE s

\* strings.TrimSpace
TrimSpace(s) == TrimRight(TrimLeft(s, " "), " ")

Schemes == {"https:", "http:", "mailto:"}

\* the scheme without its colon
SchemeName(t) ==
    CASE t = "https:"  -> "https"
      [] t = "http:"   -> "http"
      [] t = "mailto:" -> "mailto"
      [] OTHER         -> ""

\* net/url's unescape of a path
UnescapeToken(t) ==
    CASE t = "%3F" -> "?"
      [] t = "%23" -> "#"
      [] OTHER     -> t
Unescape(s) == [i \in 1..Len(s) |-> UnescapeToken(s[i])]

URLObj(ok, scheme, opaque, host, path, query, frag) ==
    [ok |-> ok, Scheme |-> scheme, Opaque |-> opaque, Host |-> host, Path |-> path,
     RawQuery |-> query, Fragment |-> frag]

\* url.Parse(s): the fragment is cut at the first "#", then the scheme is
\* taken, the query is cut at the first "?", "//" starts the authority, which
\* ends at the next "/", and what is left is the path, unescaped.
ParseURL(s) ==
    LET u     == CutBefore(s, "#")
        frag  == CutAfter(s, "#")
        hasS  == u # << >> /\ u[1] \in Schemes
        sch   == IF hasS THEN SchemeName(u[1]) ELSE ""
        r1    == IF hasS THEN Tail(u) ELSE u
        rest  == CutBefore(r1, "?")
        query == CutAfter(r1, "?")
        auth  == /\ HasPrefix(rest, <<"/", "/">>)
                 /\ (hasS \/ ~HasPrefix(rest, <<"/", "/", "/">>))
        a2    == SubSeq(rest, 3, Len(rest))
        host  == IF auth THEN CutBefore(a2, "/") ELSE << >>
        raw   == IF auth
                 THEN SubSeq(a2, Len(host) + 1, Len(a2))
                 ELSE rest
    IN  IF \E i \in 1..Len(s) : s[i] = "%zz"
        THEN URLObj(FALSE, "", << >>, << >>, << >>, << >>, << >>)
        ELSE IF hasS /\ rest # << >> /\ rest[1] # "/"
        THEN URLObj(TRUE, sch, rest, << >>, << >>, query, frag)
        ELSE URLObj(TRUE, sch, << >>, host, Unescape(raw), query, frag)

\* (*url.URL).Hostname(): the host without a port (no token stands for one)
Hostname(u) == u.Host

\* fmt.Sprintf("https://%s%s", urlObj.Hostname(), trimmedPath)
standardizeURL(urlObj) ==
    <<"https:", "/", "/">> \o Hostname(urlObj) \o TrimRight(urlObj.Path, "/")

\* ---------------------------------------------------- recommendedWorkers
UnlimitedWorkers == 1000
WorkerCap == 1000

RECURSIVE Pow10(_)
\* math.Pow10(n) for n >= 0; for n < 0 the value is below 1 and the int
\* conversion of the minimum truncates it to 0
Pow10(n) == IF n < 0 THEN 0 ELSE IF n = 0 THEN 1 ELSE 10 * Pow10(n - 1)

\* mutant: the exponent is maxDepth, not maxDepth - 1
recommendedWorkersExpOff(md) ==
    IF md = 0 THEN UnlimitedWorkers ELSE Min(Pow10(md), WorkerCap)

\* int(math.Min(math.Pow10(maxDepth-1), 1000)), 1000 for maxDepth 0
recommendedWorkers(md) ==
    IF md = 0 THEN UnlimitedWorkers ELSE Min(Pow10(md - 1), WorkerCap)

\* ----------------------------------------------------------------- parseURLs
\* An html.Node is [Type, Data, Attr, Kids]; a document is a function from
\* node numbers to nodes, node 1 being the root; Kids lists the children from
\* FirstChild along NextSibling.
Attribute(k, v) == [Key |-> k, Val |-> v]
HTMLNode(t, d, a, k) == [Type |-> t, Data |-> d, Attr |-> a, Kids |-> k]

\* mutant: the seenURLs test is left out
AddURLNoSeen(acc, su) == [urls |-> Append(acc.urls, su), seen |-> acc.seen \cup {su}]

\* if !seenURLs[standardizedURL] { urls = append(...) }; seenURLs[...] = true
AddURL(acc, su) ==
    [urls |-> IF su \in acc.seen THEN acc.urls ELSE Append(acc.urls, su),
     seen |-> acc.seen \cup {su}]

\* the body of `if a.Key == "href"`, up to the break
HrefStep(acc, val) ==
    LET urlObj == ParseURL(TrimSpace(val)) IN
    IF ~urlObj.ok THEN acc
    ELSE IF urlObj.Scheme = "https" THEN AddURL(acc, standardizeURL(urlObj))
    ELSE acc

RECURSIVE AttrLoop(_, _, _)
\* for _, a := range n.Attr, left at the first href
AttrLoop(attrs, i, acc) ==
    IF i > Len(attrs) THEN acc
    ELSE IF attrs[i].Key = "href" THEN HrefStep(acc, attrs[i].Val)
    ELSE AttrLoop(attrs, i + 1, acc)

RECURSIVE Visit(_, _, _)
RECURSIVE VisitKids(_, _, _, _)
\* f(n): the anchor test, then f on every child in order
Visit(doc, n, acc) ==
    LET here == IF doc[n].Type = "element" /\ doc[n].Data = "a"
                THEN AttrLoop(doc[n].Attr, 1, acc)
                ELSE acc
    IN  VisitKids(doc, doc[n].Kids, 1, here)

VisitKids(doc, kids, i, acc) ==
    IF i > Len(kids) THEN acc
    ELSE VisitKids(doc, kids, i + 1, Visit(doc, kids[i], acc))

parseURLs(doc) == Visit(doc, 1, [urls |-> << >>, seen |-> {}]).urls

\* ------------------------------------------------------ inputs of PureSpec
SeqsUpTo(S, n) == UNION {[1..k -> S] : k \in 0..n}

\* raw URLs as crawl and parseURLs hand them to url.Parse: an optional
\* scheme, an optional "//" + host, a path that may hold escaped "?" and "#",
\* an optional query and an optional fragment
RawURLs ==
    {sch \o auth \o p \o q \o f :
        sch \in {<< >>, <<"https:">>, <<"http:">>},
        auth \in {<< >>, <<"/", "/", "a">>},
        p \in {x \in SeqsUpTo({"a", "/", "%3F", "%23"}, MaxPathLen) :
                 ~HasPrefix(x, <<"/", "/">>)},
        q \in {<< >>, <<"?", "a">>},
        f \in {<< >>, <<"#", "a">>}}

StdInputs ==
    {r \in RawURLs :
        /\ (r # << >> /\ r[1] \in Schemes) => HasPrefix(Tail(r), <<"/", "/">>)
        /\ ParseURL(r).Host # << >> =>
             (ParseURL(r).Path = << >> \/ ParseURL(r).Path[1] = "/")}

\* href values: https://a, the same padded and with a trailing slash,
\* http://a, /a, https://a/a?a, an unparsable value, mailto:a
HrefVals ==
    {<<"https:", "/", "/", "a">>,
     <<" ", "https:", "/", "/", "a", "/", " ">>,
     <<"http:", "/", "/", "a">>,
     <<"/", "a">>,
     <<"https:", "/", "/", "a", "/", "a", "?", "a">>,
     <<"%zz">>,
     <<"mailto:", "a">>}

AttrChoices ==
    {<< >>}
    \cup {<<Attribute("href", v)>> : v \in HrefVals}
    \cup {<<Attribute("class", <<"a">>), Attribute("href", v)>> :
             v \in {<<"https:", "/", "/", "a">>,
                     <<"https:", "/", "/", "a", "/", "a", "?", "a">>}}
    \cup {<<Attribute("href", v), Attribute("href", <<"https:", "/", "/", "a">>)>> :
             v \in {<<"http:", "/", "/", "a">>,
                     <<"https:", "/", "/", "a", "/", "a", "?", "a">>}}

\* <div href><a x3/></div> <a x1><a x2>a</a></a> under the root
DocOf(x1, x2, x3) ==
    <<HTMLNode("document", "", << >>, <<3, 2>>),
      HTMLNode("element", "a", x1, <<4>>),
      HTMLNode("element", "div",
               <<Attribute("href", <<"https:", "/", "/", "a", "/", "a", "/", "a">>)>>,
               <<6>>),
      HTMLNode("element", "a", x2, <<5>>),
      HTMLNode("text", "a", << >>, << >>),
      HTMLNode("element", "a", x3, << >>)>>

Docs == {DocOf(x1, x2, x3) : x1, x2, x3 \in AttrChoices}

\* childURLs := parseURLs(doc)
ParseDoc ==
    /\ pcall = "parseURLs"
    /\ pres = << >>
    /\ pres' = <<parseURLs(parg)>>
    /\ UNCHANGED <<config, pool, gvars, pcall, parg>>

RecInputs == (0..MaxRecDepth) \X (0..MaxRecDepth)

\* standardizedURL := standardizeURL(urlObj) on the parsed argument
StdCall ==
    /\ pcall = "standardizeURL"
    /\ pres = << >>
    /\ ParseURL(parg).ok
    /\ pres' = <<standardizeURL(ParseURL(parg))>>
    /\ UNCHANGED <<config, pool, gvars, pcall, parg>>

\* the returned string is parsed and standardized again
StdAgain ==
    /\ pcall = "standardizeURL"
    /\ Len(pres) = 1
    /\ ParseURL(pres[1]).ok
    /\ pres' = Append(pres, standardizeURL(ParseURL(pres[1])))
    /\ UNCHANGED <<config, pool, gvars, pcall, parg>>

\* recommendedWorkers applied to each of two depths
RecCall ==
    /\ pcall = "recommendedWorkers"
    /\ pres = << >>
    /\ pres' = <<recommendedWorkers(parg[1]), recommendedWorkers(parg[2])>>
    /\ UNCHANGED <<config, pool, gvars, pcall, parg>>

PureInit ==
    /\ links = GraphFan
    /\ maxDepth = 0
    /\ PoolIdle
    /\ GorIdle
    /\ pres = << >>
    /\ \/ pcall = "standardizeURL" /\ parg \in StdInputs
       \/ pcall = "recommendedWorkers" /\ parg \in RecInputs
       \/ pcall = "parseURLs" /\ parg \in Docs

PureNext == StdCall \/ StdAgain \/ RecCall \/ ParseDoc

PureSpec == PureInit /\ [][PureNext]_vars

\* ------------------------------------- goroutine-per-URL variant (main.go)
\* One entry of gors per `go crawl(...)` ever started, in start order:
\* pc is "fetch" (before http.Get returns), "send" (at ch <- of child i),
\* "lock" (at logMutex.Lock), "log" (holding logMutex), "done" (returned,
\* wg.Done has run) or "panic" (sent on the closed channel).
Gor(u, d) == [url |-> u, depth |-> d, pc |-> "fetch", i |-> 1]

GorInit ==
    /\ PoolIdle
    /\ PureIdle
    /\ links \in Graphs
    /\ maxDepth \in 0..MaxDepthBound
    /\ gcrawled = {Seed}
    /\ gwg = 1
    /\ gors = <<Gor(Seed, 0)>>
    /\ gclosed = FALSE
    /\ agpc = "recv"
    /\ acur = NoURL
    /\ waitpc = "wait"
    /\ gskip = {}

\* the process is alive: aggregateURLs has not returned (main returns right
\* after it) and no goroutine has panicked
GorRunning ==
    /\ agpc \in {"recv", "check", "start"}
    /\ \A k \in DOMAIN gors : gors[k].pc # "panic"

\* http.Get fails: return, the deferred wg.Done runs
GFetchError(k) ==
    /\ GorRunning
    /\ gors[k].pc = "fetch"
    /\ gors' = [gors EXCEPT ![k].pc = "done"]
    /\ gwg' = gwg - 1
    /\ UNCHANGED <<config, pure, pool, gcrawled, gclosed, agpc, acur, waitpc, gskip>>

\* html.Parse fails: return, the deferred wg.Done runs
GParseError(k) ==
    /\ GorRunning
    /\ gors[k].pc = "fetch"
    /\ gors' = [gors EXCEPT ![k].pc = "done"]
    /\ gwg' = gwg - 1
    /\ UNCHANGED <<config, pure, pool, gcrawled, gclosed, agpc, acur, waitpc, gskip>>

\* the page is fetched and parsed; the loop over urls begins
GFetchOK(k) ==
    /\ GorRunning
    /\ gors[k].pc = "fetch"
    /\ gors' = [gors EXCEPT ![k].pc =
                    IF links[gors[k].url] = << >> THEN "lock" ELSE "send"]
    /\ UNCHANGED <<config, pure, pool, gcrawled, gwg, gclosed, agpc, acur, waitpc, gskip>>

\* ch <- urlInfo{u, depth + 1} on the unbuffered channel: completes when
\* the aggregator is at its receive
GSend(k) ==
    /\ GorRunning
    /\ gors[k].pc = "send"
    /\ ~gclosed
    /\ agpc = "recv"
    /\ acur' = urlInfo(links[gors[k].url][gors[k].i], gors[k].depth + 1)
    /\ agpc' = "check"
    /\ gors' = [gors EXCEPT ![k].i = @ + 1,
                            ![k].pc = IF gors[k].i = Len(links[gors[k].url])
                                      THEN "lock" ELSE "send"]
    /\ UNCHANGED <<config, pure, pool, gcrawled, gwg, gclosed, waitpc, gskip>>

\* ch <- on the closed channel panics
GSendClosed(k) ==
    /\ GorRunning
    /\ gors[k].pc = "send"
    /\ gclosed
    /\ gors' = [gors EXCEPT ![k].pc = "panic"]
    /\ UNCHANGED <<config, pure, pool, gcrawled, gwg, gclosed, agpc, acur, waitpc, gskip>>

\* logMutex.Lock()
GLock(k) ==
    /\ GorRunning
    /\ gors[k].pc = "lock"
    /\ \A j \in DOMAIN gors : gors[j].pc # "log"
    /\ gors' = [gors EXCEPT ![k].pc = "log"]
    /\ UNCHANGED <<config, pure, pool, gcrawled, gwg, gclosed, agpc, acur, waitpc, gskip>>

\* the log lines, then the deferred logMutex.Unlock and wg.Done
GDone(k) ==
    /\ GorRunning
    /\ gors[k].pc = "log"
    /\ gors' = [gors EXCEPT ![k].pc = "done"]
    /\ gwg' = gwg - 1
    /\ UNCHANGED <<config, pure, pool, gcrawled, gclosed, agpc, acur, waitpc, gskip>>

GCrawl(k) ==
    \/ GFetchError(k)
    \/ GParseError(k)
    \/ GFetchOK(k)
    \/ GSend(k)
    \/ GSendClosed(k)
    \/ GLock(k)
    \/ GDone(k)

\* !crawled[url.val] && (url.depth < maxDepth || maxDepth == 0)
GEligible(u) ==
    /\ u.val \notin gcrawled
    /\ (u.depth < maxDepth \/ maxDepth = 0)

GMarkSkip(c, u) == c

\* crawled[url.val] = true
GMark(c, u) == c \cup {u}

\* the loop body's condition, and wg.Add(1) when it holds
AggrCheck ==
    /\ GorRunning
    /\ agpc = "check"
    /\ IF GEligible(acur)
       THEN /\ gwg' = gwg + 1
            /\ agpc' = "start"
            /\ UNCHANGED gskip
       ELSE /\ agpc' = "recv"
            /\ gskip' = gskip \cup {acur}
            /\ UNCHANGED gwg
    /\ UNCHANGED <<config, pure, pool, gors, gcrawled, gclosed, acur, waitpc>>

\* crawled[url.val] = true; go crawl(url.val, url.depth, ...)
AggrStart ==
    /\ GorRunning
    /\ agpc = "start"
    /\ gcrawled' = GMark(gcrawled, acur.val)
    /\ gors' = Append(gors, Gor(acur.val, acur.depth))
    /\ agpc' = "recv"
    /\ UNCHANGED <<config, pure, pool, gwg, gclosed, acur, waitpc, gskip>>

\* the range loop ends on the closed channel; aggregateURLs and main return
AggrEnd ==
    /\ GorRunning
    /\ agpc = "recv"
    /\ gclosed
    /\ agpc' = "returned"
    /\ UNCHANGED <<config, pure, pool, gors, gcrawled, gwg, gclosed, acur, waitpc, gskip>>

\* wg.Wait() returns
WaiterWake ==
    /\ GorRunning
    /\ waitpc = "wait"
    /\ gwg = 0
    /\ waitpc' = "close"
    /\ UNCHANGED <<config, pure, pool, gors, gcrawled, gwg, gclosed, agpc, acur, gskip>>

\* close(urlAggregation)
WaiterClose ==
    /\ GorRunning
    /\ waitpc = "close"
    /\ gclosed' = TRUE
    /\ waitpc' = "done"
    /\ UNCHANGED <<config, pure, pool, gors, gcrawled, gwg, agpc, acur, gskip>>

GorNext ==
    \/ \E k \in DOMAIN gors : GCrawl(k)
    \/ AggrCheck
    \/ AggrStart
    \/ AggrEnd
    \/ WaiterWake
    \/ WaiterClose

GorSpec == GorInit /\ [][GorNext]_vars

\* ----------------------------------------------------------------- helpers
\* a worker returned from the range loop body on a fetch or parse error
SomeFetchFailed == \E w \in Workers : wpc[w] = "returned"

\* some step sent u into urlsToCrawl
Enqueued(u) == enqCount'[u] > enqCount[u]

\* the children of the current result the aggregator tries to send
NewChildren ==
    SelectSeq(info.childURLs,
              LAMBDA c : c \notin processed /\ (info.depth < maxDepth \/ maxDepth = 0))

LoopOver == aggpc = "loop" /\ idx > Len(info.childURLs)

\* ------------------------------------------------------------------- claims

\* C1: if every fetch and every parse succeeds, then under fair scheduling
\* the crawl terminates: the counter reaches zero, wg.Wait returns and the
\* results channel is closed.
C1_Terminates ==
    <>(SomeFetchFailed
       \/ (wg = 0 /\ mainpc \in {"returned", "exited"} /\ resultsClosed))

C1_Witness ==
    /\ ~SomeFetchFailed
    /\ resultsClosed
    /\ wg = 0
    /\ Cardinality(processed) >= 3

\* C2: a work item whose fetch or parse fails is resolved as a leaf: the
\* step in which the worker gives the item up decrements the outstanding
\* counter by one.
C2_FailureDecrements ==
    [][\A w \in Workers :
         (wpc[w] = "fetch" /\ wpc'[w] = "returned") => wg' = wg - 1]_vars

\* C3: over the whole crawl each URL is sent into the frontier at most once.
C3_EnqueuedAtMostOnce == \A u \in URLs : enqCount[u] <= 1

\* C4: a URL that was the baseURL of a result the aggregator has received
\* (the current one included) is never sent into the frontier afterwards.
C4_ProcessedSourceNotEnqueued ==
    [][\A u \in URLs : Enqueued(u) => u \notin processed]_vars

\* the aggregator has just passed over a self-link it could have sent
C4_Witness ==
    /\ aggpc = "loop"
    /\ idx > 1
    /\ info.childURLs[idx - 1] = info.baseURL
    /\ (info.depth < maxDepth \/ maxDepth = 0)
    /\ Len(urlsToCrawl) < capacity

\* C5: depth gating. With maxDepth > 0 a result at depth maxDepth sends
\* nothing; every child sent carries the parent's depth + 1; every work item
\* in the frontier or held by a worker has a depth in 1..maxDepth.
C5_DepthGating ==
    /\ [](maxDepth > 0 =>
            /\ \A i \in 1..Len(urlsToCrawl) :
                 urlsToCrawl[i].depth \in 1..maxDepth
            /\ \A w \in Workers :
                 wpc[w] \in {"fetch", "send"} => wurl[w].depth \in 1..maxDepth)
    /\ [][(aggpc = "loop" /\ aggpc' = "add") =>
            /\ urlsToCrawl'[Len(urlsToCrawl')].depth = info.depth + 1
            /\ (maxDepth > 0 => info.depth < maxDepth)]_vars

\* a result at depth maxDepth listing a page never seen, with room in the
\* frontier, has been gone through
C5_Witness ==
    /\ maxDepth > 0
    /\ LoopOver
    /\ info.depth = maxDepth
    /\ \E i \in 1..Len(info.childURLs) : info.childURLs[i] \notin processed
    /\ Len(urlsToCrawl) < capacity
    /\ sentThis = << >>

\* C6: the aggregator's send never blocks: while it goes through a result it
\* always has a step to take, and when no worker received from the frontier
\* meanwhile, exactly the first min(k, f) of the k new children were sent, in
\* extraction order, and the others were dropped.
C6_Backpressure ==
    /\ (Running /\ aggpc \in {"loop", "add"}) => ENABLED Aggregator
    /\ (LoopOver /\ ~deqDuring) =>
          LET k == Len(NewChildren)
              n == Min(k, free0)
          IN  /\ sentThis = SubSeq(NewChildren, 1, n)
              /\ droppedThis = {NewChildren[i] : i \in (n + 1)..k}

C6_Witness ==
    /\ LoopOver
    /\ ~deqDuring
    /\ free0 >= 1
    /\ Len(sentThis) = free0
    /\ droppedThis # {}

\* C7 as stated: a child that was dropped because the frontier was full is
\* never sent into the frontier later in the crawl.
C7_DroppedNeverEnqueued ==
    [][\A u \in URLs : Enqueued(u) => u \notin droppedEver]_vars

\* C7 amended: a dropped child is not retried while the result that listed it
\* is being processed.
C7_DroppedNotRetried ==
    [][\A u \in URLs : Enqueued(u) => u \notin droppedThis]_vars

\* a child was dropped and a later child of the same result was sent
C7_Witness ==
    /\ aggpc = "add"
    /\ droppedThis # {}
    /\ \E i \in 1..(idx - 1) : info.childURLs[i] \in droppedThis

\* C8: when the counter is zero no work remains: the frontier is empty, no
\* worker holds a work item or a result, the aggregator is not processing a
\* result and the seed has been sent.
C8_ZeroMeansNoWork ==
    wg = 0 =>
        /\ urlsToCrawl = << >>
        /\ \A w \in Workers : wpc[w] \notin {"fetch", "send"}
        /\ aggpc \in {"recv", "exit"}
        /\ seedpc = "done"

\* the counter is zero after a work item resolved into several
C8_Witness ==
    /\ wg = 0
    /\ \E u \in URLs : enqCount[u] >= 2
    /\ Cardinality(processed) >= 3

\* C9: results is closed only at counter zero, the frontier is closed only
\* after results is closed and the aggregator loop ended, and no worker has
\* left its loop while the counter is positive.
C9_ShutdownOrdering ==
    /\ resultsClosed => wg = 0
    /\ toCrawlClosed => (wg = 0 /\ resultsClosed /\ aggpc = "exit")
    /\ \A w \in Workers : wpc[w] \in {"returned", "exit"} => wg = 0

\* C10: a worker stops only when the frontier is closed and drained.
C10_WorkerStopsOnlyWhenClosed ==
    \A w \in Workers :
        wpc[w] \in {"returned", "exit"} => (toCrawlClosed /\ urlsToCrawl = << >>)

\* C11: with maxDepth = 0 (unlimited), if every fetch and every parse
\* succeeds, then under fair scheduling the counter eventually reaches zero,
\* cycles in the link graph or not.
C11_UnlimitedTerminates ==
    (maxDepth = 0) => <>(SomeFetchFailed \/ (wg = 0 /\ mainpc # "wait"))

\* an unlimited crawl of a cyclic graph ended after every page was processed
C11_Witness ==
    /\ maxDepth = 0
    /\ ~SomeFetchFailed
    /\ wg = 0
    /\ mainpc # "wait"
    /\ processed = URLs

\* C12: the frontier never holds more work items than its capacity and the
\* number of fetches in progress never exceeds the pool size.
C12_ResourceBound ==
    /\ Len(urlsToCrawl) <= capacity
    /\ Cardinality({w \in Workers : wpc[w] = "fetch"}) <= maxWorkers

\* a full frontier, every worker fetching, and links found beyond that
C12_Witness ==
    /\ Len(urlsToCrawl) = capacity
    /\ Cardinality({w \in Workers : wpc[w] = "fetch"}) = maxWorkers
    /\ droppedEver # {}

\* the last n elements of s
LastN(s, n) == SubSeq(s, Len(s) - n + 1, Len(s))

\* the place of c in the duplicate-free sequence s (0 when absent)
PosIn(s, c) ==
    IF \E i \in 1..Len(s) : s[i] = c
    THEN CHOOSE i \in 1..Len(s) : s[i] = c
    ELSE 0

\* C15: the frontier is FIFO and fed, after the seed, by the aggregator
\* alone: the work items waiting in it are the most recent ones sent, in the
\* order sent; the first item ever sent is the seed; and the items sent
\* while a result is processed form one block at the end of the sequence,
\* holding that result's sent children in its extraction order.
C15_Ordering ==
    /\ Len(urlsToCrawl) <= Len(enqLog)
    /\ urlsToCrawl = LastN(enqLog, Len(urlsToCrawl))
    /\ enqLog # << >> => enqLog[1] = urlInfo(Seed, 1)
    /\ aggpc \in {"loop", "add"} =>
          /\ Len(sentThis) < Len(enqLog)
          /\ LastN(enqLog, Len(sentThis))
                = [i \in 1..Len(sentThis) |-> urlInfo(sentThis[i], info.depth + 1)]
          /\ \A i \in 1..Len(sentThis) : PosIn(info.childURLs, sentThis[i]) > 0
          /\ \A i, j \in 1..Len(sentThis) :
                i < j => PosIn(info.childURLs, sentThis[i])
                           < PosIn(info.childURLs, sentThis[j])

\* a result other than the seed's has had two children sent, while an
\* earlier item is still waiting in the frontier
C15_Witness ==
    /\ LoopOver
    /\ info.baseURL # Seed
    /\ Len(sentThis) >= 2
    /\ Len(urlsToCrawl) > Len(sentThis)

\* C16: a worker holding a result is never blocked forever on the hand-off:
\* the aggregator always comes back to receive, also when the frontier is
\* full.
C16_HandoffNeverStuck ==
    \A w \in Workers : (wpc[w] = "send") ~> (wpc[w] # "send")

\* a worker waits with its result while the aggregator finds the frontier
\* full
C16_Witness ==
    /\ \E w \in Workers : wpc[w] = "send"
    /\ aggpc = "loop"
    /\ Len(urlsToCrawl) = capacity
    /\ droppedThis # {}

\* C19: no send on a closed channel and no negative counter: no worker is
\* at results <- r once results is closed, neither the seed goroutine nor
\* the aggregator is sending to urlsToCrawl once it is closed, and wg >= 0.
C19_NoSendOnClosed ==
    /\ resultsClosed => \A w \in Workers : wpc[w] # "send"
    /\ toCrawlClosed => (seedpc = "done" /\ aggpc = "exit")
    /\ wg >= 0

\* both channels were closed after several results went through
C19_Witness ==
    /\ resultsClosed
    /\ toCrawlClosed
    /\ Cardinality(processed) >= 3
    /\ \E w \in Workers : wpc[w] = "exit"

\* C13: standardizeURL is idempotent over parsed URLs: the returned string
\* has scheme https, its path has no trailing "/", it has no query and no
\* fragment, and standardizing the re-parsed string returns the same string.
C13_Idempotent ==
    (pcall = "standardizeURL" /\ Len(pres) = 2) =>
        LET u == ParseURL(pres[1]) IN
        /\ u.Scheme = "https"
        /\ (u.Path = << >> \/ u.Path[Len(u.Path)] # "/")
        /\ u.RawQuery = << >>
        /\ u.Fragment = << >>
        /\ pres[2] = pres[1]

RECURSIVE Preorder(_, _)
RECURSIVE PreorderKids(_, _, _)
\* the nodes of the document in depth-first document order
Preorder(doc, n) == <<n>> \o PreorderKids(doc, doc[n].Kids, 1)
PreorderKids(doc, kids, i) ==
    IF i > Len(kids) THEN << >>
    ELSE Preorder(doc, kids[i]) \o PreorderKids(doc, kids, i + 1)

IsAnchorWithHref(node) ==
    /\ node.Type = "element"
    /\ node.Data = "a"
    /\ \E i \in 1..Len(node.Attr) : node.Attr[i].Key = "href"

FirstHrefVal(node) ==
    LET i == CHOOSE k \in 1..Len(node.Attr) :
                /\ node.Attr[k].Key = "href"
                /\ \A j \in 1..(k - 1) : node.Attr[j].Key # "href"
    IN  node.Attr[i].Val

\* the standardized URLs of the accepted anchors, in document order, with
\* repetitions
AcceptedLinks(doc) ==
    LET nodes   == Preorder(doc, 1)
        anchors == SelectSeq(nodes, LAMBDA n : IsAnchorWithHref(doc[n]))
        parsed  == [i \in 1..Len(anchors) |->
                      ParseURL(TrimSpace(FirstHrefVal(doc[anchors[i]])))]
        kept    == SelectSeq(parsed, LAMBDA u : u.ok /\ u.Scheme = "https")
    IN  [i \in 1..Len(kept) |-> standardizeURL(kept[i])]

\* C14: parseURLs returns the standardized URLs of the anchors' first href,
\* in depth-first document order, keeping only parsable values of scheme
\* https, each URL once, at the place of its first occurrence.
C14_ParseURLs ==
    (pcall = "parseURLs" /\ Len(pres) = 1) =>
        LET out == pres[1]
            acc == AcceptedLinks(parg)
        IN  /\ {out[i] : i \in 1..Len(out)} = {acc[i] : i \in 1..Len(acc)}
            /\ \A i, j \in 1..Len(out) : i # j => out[i] # out[j]
            /\ \A i, j \in 1..Len(out) :
                  i < j => IndexOf(acc, out[i]) < IndexOf(acc, out[j])

\* a document in which two anchors give the same URL (one of them padded
\* and with a trailing slash) and a third has an http href before an https one
C14_Witness ==
    /\ pcall = "parseURLs"
    /\ Len(pres) = 1
    /\ Len(pres[1]) = 1
    /\ Len(AcceptedLinks(parg)) = 2
    /\ Len(parg[2].Attr) = 2
    /\ parg[2].Attr[1].Val = <<"http:", "/", "/", "a">>
    /\ parg[4].Attr = <<Attribute("href", <<" ", "https:", "/", "/", "a", "/", " ">>)>>

\* C17 as stated: recommendedWorkers(0) = 1000, for maxDepth >= 1 the result
\* is min(10^(maxDepth-1), 1000), it lies in 1..1000 and it is non-decreasing
\* in maxDepth over all maxDepth >= 0.
C17_NonDecreasingFromZero ==
    (pcall = "recommendedWorkers" /\ Len(pres) = 2) =>
        /\ pres[1] = (CASE parg[1] = 0 -> 1000
                        [] parg[1] = 1 -> 1
                        [] parg[1] = 2 -> 10
                        [] parg[1] = 3 -> 100
                        [] OTHER       -> 1000)
        /\ pres[1] \in 1..1000
        /\ parg[1] <= parg[2] => pres[1] <= pres[2]

\* C17 amended: the same, with the result non-decreasing over maxDepth >= 1
\* only (maxDepth = 0 gives the maximum).
C17_RecommendedWorkers ==
    (pcall = "recommendedWorkers" /\ Len(pres) = 2) =>
        /\ pres[1] = (CASE parg[1] = 0 -> 1000
                        [] parg[1] = 1 -> 1
                        [] parg[1] = 2 -> 10
                        [] parg[1] = 3 -> 100
                        [] OTHER       -> 1000)
        /\ pres[1] \in 1..1000
        /\ (1 <= parg[1] /\ parg[1] <= parg[2]) => pres[1] <= pres[2]

\* the heuristic was applied to a depth below the cap and one beyond it
C17_Witness ==
    /\ pcall = "recommendedWorkers"
    /\ Len(pres) = 2
    /\ parg = <<3, 5>>
    /\ pres = <<100, 1000>>

\* C18: in the goroutine-per-URL variant the aggregation channel is closed only
\* when every started crawl has returned and the aggregator holds no accepted
\* URL it has yet to start, and no crawl goroutine sends on the closed channel.
C18_CloseOnlyWhenQuiescent ==
    /\ \A k \in DOMAIN gors : gors[k].pc # "panic"
    /\ gclosed =>
        /\ \A k \in DOMAIN gors : gors[k].pc = "done"
        /\ agpc # "start"
        /\ ~(agpc = "check" /\ GEligible(acur))

\* C20: in the goroutine-per-URL variant the marked URLs are exactly the URLs
\* whose crawl has been started, no URL has two crawls, the first crawl is the
\* seed at depth 0, and for maxDepth > 0 every started crawl has depth below
\* maxDepth.
C20_CrawledOnceWithinDepth ==
    agpc # "none" =>
        /\ gcrawled = {gors[k].url : k \in DOMAIN gors}
        /\ \A j, k \in DOMAIN gors : gors[j].url = gors[k].url => j = k
        /\ gors[1].url = Seed /\ gors[1].depth = 0
        /\ maxDepth > 0 => \A k \in DOMAIN gors : gors[k].depth < maxDepth

\* with a positive maxDepth, three crawls were started, a received URL was
\* passed over because it was marked and another because of its depth
C20_Witness ==
    /\ maxDepth > 0
    /\ Len(gors) >= 3
    /\ \E s \in gskip : s.val \in gcrawled /\ s.depth < maxDepth
    /\ \E s \in gskip : s.depth >= maxDepth

TypeOK ==
    /\ wg \in Nat
    /\ idx \in 1..(Len(info.childURLs) + 1)

====
